---- MODULE Spec2Model ----
(***************************************************************************)
(* semembed: an OpenAI-compatible embeddings service (src/src/main.rs).    *)
(* The model follows main() through startup and every handler of the       *)
(* router: create_embeddings (one process per request, stepping through    *)
(* the handler's statements), health_check, list_models, metrics_handler.  *)
(* A string is the sequence of its chars, a char its Unicode scalar value. *)
(***************************************************************************)
EXTENDS Naturals, Integers, Sequences, FiniteSets, TLC

(***************************************************************************)
(* Bounds                                                                  *)
(***************************************************************************)
\* number of embeddings requests that may be in flight together
NumReq == 2
\* longest batch of the exhaustive request bodies
MaxBatch == 2
\* longest text of the exhaustive request bodies
MaxTextLen == 3

Reqs == 1..NumReq

(***************************************************************************)
(* Texts                                                                   *)
(***************************************************************************)
\* 'a' and ' '
Alphabet == {97, 32}

SeqsUpTo(S, n) == UNION {[1..k -> S] : k \in 0..n}

EmptyText == <<>>
\* "foo"
Foo == <<102, 111, 111>>
\* "hello world"
HelloWorld == <<104, 101, 108, 108, 111, 32, 119, 111, 114, 108, 100>>
\* " a\t b\n"
Padded == <<32, 97, 9, 32, 98, 10>>
\* "a\u{c}b\u{a0}c": form feed and no-break space between letters
FormFeedNbsp == <<97, 12, 98, 160, 99>>
\* "a\u{3000}\u{2003}b\u{200b}c": ideographic space and em space separate,
\* zero width space (not White_Space) does not
Ideographic == <<97, 12288, 8195, 98, 8203, 99>>

\* char::is_whitespace: the code points with the Unicode White_Space property
IsWhitespace(c) ==
    \/ c \in 9..13
    \/ c = 32
    \/ c = 133
    \/ c = 160
    \/ c = 5760
    \/ c \in 8192..8202
    \/ c \in 8232..8233
    \/ c = 8239
    \/ c = 8287
    \/ c = 12288

\* str::split(char::is_whitespace): the pieces between whitespace characters,
\* empty pieces included
RECURSIVE split(_, _, _)
split(t, cur, acc) ==
    IF t = <<>> THEN Append(acc, cur)
    ELSE IF IsWhitespace(Head(t))
         THEN split(Tail(t), <<>>, Append(acc, cur))
         ELSE split(Tail(t), Append(cur, Head(t)), acc)

IsNotEmpty(p) == Len(p) > 0

\* a mutation of split_whitespace: empty pieces are kept
split_keep_empty(t) == split(t, <<>>, <<>>)

\* str::split_whitespace: split on whitespace, empty pieces filtered out
split_whitespace(t) == SelectSeq(split(t, <<>>, <<>>), IsNotEmpty)

RECURSIVE SumSeq(_)
SumSeq(s) == IF s = <<>> THEN 0 ELSE Head(s) + SumSeq(Tail(s))

\* texts.iter().map(|t| t.split_whitespace().count()).sum()
TokenCount(ts) == SumSeq([i \in 1..Len(ts) |-> Len(split_whitespace(ts[i]))])

(***************************************************************************)
(* Request bodies and their decoding (the Json<EmbeddingRequest> extractor)*)
(***************************************************************************)
\* A raw body: the JSON shape of "input" and the "encoding_format" string.
\* shape "string" carries single, shape "list" carries batch.
RawBody(shape, single, batch, fmt) ==
    [shape |-> shape, single |-> single, batch |-> batch, encoding_format |-> fmt]

\* enum EncodingFormat, lowercase names; an absent field takes the default
KnownFormats == {"float", "base64"}

\* the bodies of the concurrent specification
Bodies ==
    { RawBody("string", HelloWorld, <<>>, "absent"),
      RawBody("list", <<>>, <<HelloWorld>>, "float"),
      RawBody("list", <<>>, <<HelloWorld, Foo>>, "base64"),
      RawBody("list", <<>>, <<>>, "absent"),
      RawBody("number", <<>>, <<>>, "absent"),
      RawBody("list", <<>>, <<Foo>>, "hex"),
      RawBody("syntax_error", <<>>, <<>>, "absent") }

\* one body for each way through the handler: decoded and non-empty, decoded
\* and empty, not decodable
PathBodies ==
    { RawBody("string", HelloWorld, <<>>, "absent"),
      RawBody("list", <<>>, <<>>, "absent"),
      RawBody("number", <<>>, <<>>, "absent") }

\* the bodies of the single-request specification: every text over Alphabet
\* up to MaxTextLen, alone and in every batch up to MaxBatch
RichTexts == SeqsUpTo(Alphabet, MaxTextLen) \cup {Padded, FormFeedNbsp, Ideographic}
RichBodies ==
    { RawBody("string", t, <<>>, "absent") : t \in RichTexts }
    \cup { RawBody("list", <<>>, b, "absent") : b \in SeqsUpTo(RichTexts, MaxBatch) }
    \cup { RawBody("list", <<>>, <<HelloWorld, Foo>>, "absent") }

\* serde: what decoding the body gives. "ok", or the rejection axum's Json
\* extractor answers with
DecodeOutcome(raw) ==
    IF raw.shape = "syntax_error" THEN "syntax"
    ELSE IF raw.shape \notin {"string", "list"} THEN "data"
    ELSE IF raw.encoding_format \notin KnownFormats \cup {"absent"} THEN "data"
    ELSE "ok"

\* struct EmbeddingRequest with enum InputType { Single(String), Batch(Vec<String>) }
Decode(raw) ==
    [kind |-> IF raw.shape = "string" THEN "Single" ELSE "Batch",
     single |-> raw.single,
     batch |-> raw.batch,
     encoding_format |-> IF raw.encoding_format = "absent" THEN "float"
                         ELSE raw.encoding_format]

NoRequest == [kind |-> "None", single |-> <<>>, batch |-> <<>>, encoding_format |-> "float"]

\* a mutation of Normalize: a single string is broken into its words
NormalizeWords(input) ==
    IF input.kind = "Single" THEN split_whitespace(input.single) ELSE input.batch

\* match req.input { Single(text) => vec![text], Batch(texts) => texts }
Normalize(input) ==
    IF input.kind = "Single" THEN <<input.single>> ELSE input.batch

\* a mutation of IsEmpty: the emptiness check never fires
IsEmptyNever(ts) == FALSE

\* a mutation of IsEmpty: a batch of nothing but empty strings counts as empty
IsEmptyOrBlank(ts) == \A i \in 1..Len(ts) : Len(ts[i]) = 0

\* Vec::is_empty
IsEmpty(ts) == Len(ts) = 0

(***************************************************************************)
(* Responses                                                               *)
(***************************************************************************)
Response(status, content, data, model, tokens, message, error_type, metrics) ==
    [status |-> status, content |-> content, data |-> data, model |-> model,
     prompt_tokens |-> tokens, total_tokens |-> tokens,
     message |-> message, error_type |-> error_type, metrics |-> metrics]

NoResponse == Response(0, "none", <<>>, "", 0, <<>>, "", <<>>)

\* (StatusCode, Json(ErrorResponse { error: ErrorDetail { message, error_type } }))
ErrorResponse(status, message, error_type) ==
    Response(status, "error_json", <<>>, "", 0, message, error_type, <<>>)

\* a plain-text answer: a status and a string, no JSON document
TextResponse(status, message) ==
    Response(status, "text", <<>>, "", 0, message, "", <<>>)

\* axum's JsonRejection: 400 for a JSON syntax error, 422 for JSON that does
\* not fit the target type, both with a plain-text body
JsonRejection(outcome) ==
    IF outcome = "syntax"
    THEN TextResponse(400, <<"Failed to parse the request body as JSON">>)
    ELSE TextResponse(422, <<"Failed to deserialize the JSON body into the target type">>)

\* a mutation of FormatEngineError: the engine's message is left out
FormatEngineErrorBare(e) == <<"Failed to generate embeddings">>

\* format!("Failed to generate embeddings: {}", e)
FormatEngineError(e) == <<"Failed to generate embeddings: ", e>>

\* a mutation of EmbeddingData: the index counts from one
EmbeddingDataFromOne(emb) ==
    [i \in 1..Len(emb) |-> [object |-> "embedding", embedding |-> emb[i], index |-> i]]

\* embeddings.into_iter().enumerate().map(|(index, embedding)| EmbeddingObject {..})
EmbeddingData(emb) ==
    [i \in 1..Len(emb) |-> [object |-> "embedding", embedding |-> emb[i], index |-> i - 1]]

\* EmbeddingResponse { object: "list", data, model, usage }
EmbeddingResponse(emb, model, tokens) ==
    Response(200, "embedding", EmbeddingData(emb), model, tokens, <<>>, "", <<>>)

(***************************************************************************)
(* The engine (fastembed), an opaque deterministic text -> vector map that *)
(* may fail                                                                *)
(***************************************************************************)
EngineVector(t) == [vector_of |-> t]

\* TextEmbedding::embed(texts, None) on success: one vector per text, in order
EngineEmbed(ts) == [i \in 1..Len(ts) |-> EngineVector(ts[i])]

EngineErrors == {"tokenizer failure"}

NoResult == [ok |-> FALSE, emb |-> <<>>, err |-> ""]

\* SEMEMBED_MODEL, or its default
ModelNames == {"BAAI/bge-small-en-v1.5"}

(***************************************************************************)
(* State                                                                   *)
(***************************************************************************)
VARIABLES
    main_pc,            \* main(): "load", "bind", "serving", "exited"
    model_name,         \* AppState.model_name
    embedder,           \* AppState.embedder: the Mutex's owner, 0 when free
    engine_busy,        \* engine embed calls in flight
    requests_total,     \* Metrics.requests_total
    errors_total,       \* Metrics.errors_total
    tokens_processed,   \* Metrics.tokens_processed
    request_duration,   \* Metrics.request_duration: number of samples
    pc,                 \* create_embeddings: position of each request
    req,                \* create_embeddings: the decoded request
    timer,              \* create_embeddings: the HistogramTimer
    texts,              \* create_embeddings: texts
    token_count,        \* create_embeddings: token_count
    embed_result,       \* create_embeddings: what embedder.embed returned
    embed_calls,        \* engine calls each request has made
    resp,               \* the response each request got
    counted,            \* what each request added to the four instruments
    get_resp            \* the response of the GET handler that ran in the latest
                        \* step; NoResponse after a step of anything else

vars == <<main_pc, model_name, embedder, engine_busy, requests_total, errors_total,
          tokens_processed, request_duration, pc, req, timer, texts, token_count,
          embed_result, embed_calls, resp, counted, get_resp>>

metricVars == <<requests_total, errors_total, tokens_processed, request_duration>>
reqVars == <<pc, req, timer, texts, token_count, embed_result, embed_calls, resp, counted>>

NoCount == [requests |-> 0, errors |-> 0, tokens |-> 0, samples |-> 0]

Init ==
    /\ main_pc = "load"
    /\ model_name \in ModelNames
    /\ embedder = 0
    /\ engine_busy = 0
    /\ requests_total = 0
    /\ errors_total = 0
    /\ tokens_processed = 0
    /\ request_duration = 0
    /\ pc = [r \in Reqs |-> "idle"]
    /\ req = [r \in Reqs |-> NoRequest]
    /\ timer = [r \in Reqs |-> "none"]
    /\ texts = [r \in Reqs |-> <<>>]
    /\ token_count = [r \in Reqs |-> 0]
    /\ embed_result = [r \in Reqs |-> NoResult]
    /\ embed_calls = [r \in Reqs |-> 0]
    /\ resp = [r \in Reqs |-> NoResponse]
    /\ counted = [r \in Reqs |-> NoCount]
    /\ get_resp = NoResponse

\* a mutation of Serving: requests are taken before the listener is bound
ServingEarly == main_pc \in {"load", "bind", "serving"}

\* the listener is bound and axum::serve is running
Serving == main_pc = "serving"

(***************************************************************************)
(* main()                                                                  *)
(***************************************************************************)
\* TextEmbedding::try_new(..)? and Metrics::new()?: a failure ends the process
LoadModel(ok) ==
    /\ main_pc = "load"
    /\ main_pc' = IF ok THEN "bind" ELSE "exited"
    /\ UNCHANGED <<model_name, embedder, engine_busy, metricVars, reqVars>>
    /\ get_resp' = NoResponse

\* TcpListener::bind(&addr).await? then axum::serve
BindListener(ok) ==
    /\ main_pc = "bind"
    /\ main_pc' = IF ok THEN "serving" ELSE "exited"
    /\ UNCHANGED <<model_name, embedder, engine_busy, metricVars, reqVars>>
    /\ get_resp' = NoResponse

(***************************************************************************)
(* HistogramTimer                                                          *)
(***************************************************************************)
\* a mutation of DropTimer: a dropped timer records nothing
DropTimerForgets(t) == 0

\* Drop for HistogramTimer: a timer that was not observed records its sample
\* when it goes out of scope; an observed one records nothing more
DropTimer(t) == IF t = "running" THEN 1 ELSE 0

\* HistogramTimer::observe_duration: records the sample and consumes the timer
ObserveDuration(t) == IF t = "running" THEN 1 ELSE 0

(***************************************************************************)
(* Mutex<TextEmbedding>                                                    *)
(***************************************************************************)
\* a mutation of CanLock: the engine is entered without waiting for the guard
CanLockAlways(owner) == TRUE

\* Mutex::lock returns only when no other task holds the guard
CanLock(owner) == owner = 0

\* a mutation of DropGuard: the guard is never released
DropGuardLeak(owner, r) == owner

\* Drop for MutexGuard: the owner's guard going out of scope frees the mutex
DropGuard(owner, r) == IF owner = r THEN 0 ELSE owner

(***************************************************************************)
(* create_embeddings                                                       *)
(***************************************************************************)
\* A request arrives: the Json extractor decodes the body. A body that does
\* not decode is answered by the extractor; the handler's body never runs.
\* Requests are numbered in arrival order.
Receive(r, raw) ==
    /\ Serving
    /\ pc[r] = "idle"
    /\ \A q \in Reqs : q < r => pc[q] # "idle"
    /\ IF DecodeOutcome(raw) = "ok"
       THEN /\ req' = [req EXCEPT ![r] = Decode(raw)]
            /\ pc' = [pc EXCEPT ![r] = "enter"]
            /\ resp' = resp
       ELSE /\ resp' = [resp EXCEPT ![r] = JsonRejection(DecodeOutcome(raw))]
            /\ pc' = [pc EXCEPT ![r] = "rejected"]
            /\ req' = req
    /\ UNCHANGED <<main_pc, model_name, embedder, engine_busy, metricVars, timer,
                   texts, token_count, embed_result, embed_calls, counted>>
    /\ get_resp' = NoResponse

\* let timer = ...start_timer(); requests_total.inc();
Enter(r) ==
    /\ pc[r] = "enter"
    /\ timer' = [timer EXCEPT ![r] = "running"]
    /\ requests_total' = requests_total + 1
    /\ counted' = [counted EXCEPT ![r].requests = @ + 1]
    /\ pc' = [pc EXCEPT ![r] = "validate"]
    /\ UNCHANGED <<main_pc, model_name, embedder, engine_busy, errors_total,
                   tokens_processed, request_duration, req, texts, token_count,
                   embed_result, embed_calls, resp>>
    /\ get_resp' = NoResponse

\* a mutation of Validate: the empty-input branch counts the error and
\* carries on instead of returning
ValidateNoReturn(r) ==
    /\ pc[r] = "validate"
    /\ texts' = [texts EXCEPT ![r] = Normalize(req[r])]
    /\ errors_total' = errors_total + (IF IsEmpty(Normalize(req[r])) THEN 1 ELSE 0)
    /\ counted' = [counted EXCEPT ![r].errors =
                       @ + (IF IsEmpty(Normalize(req[r])) THEN 1 ELSE 0)]
    /\ pc' = [pc EXCEPT ![r] = "count"]
    /\ UNCHANGED <<main_pc, model_name, embedder, engine_busy, requests_total,
                   tokens_processed, request_duration, req, timer, token_count,
                   embed_result, embed_calls, resp>>
    /\ get_resp' = NoResponse

\* let texts = match req.input {..}; if texts.is_empty() { errors_total.inc(); ..
Validate(r) ==
    /\ pc[r] = "validate"
    /\ texts' = [texts EXCEPT ![r] = Normalize(req[r])]
    /\ IF IsEmpty(Normalize(req[r]))
       THEN /\ errors_total' = errors_total + 1
            /\ counted' = [counted EXCEPT ![r].errors = @ + 1]
            /\ pc' = [pc EXCEPT ![r] = "empty"]
       ELSE /\ pc' = [pc EXCEPT ![r] = "count"]
            /\ UNCHANGED <<errors_total, counted>>
    /\ UNCHANGED <<main_pc, model_name, embedder, engine_busy, requests_total,
                   tokens_processed, request_duration, req, timer, token_count,
                   embed_result, embed_calls, resp>>
    /\ get_resp' = NoResponse

\* return Err((BAD_REQUEST, Json(ErrorResponse {..}))): the return drops the
\* timer, which records its sample, and the 400 goes out
ReturnEmpty(r) ==
    /\ pc[r] = "empty"
    /\ resp' = [resp EXCEPT ![r] =
           ErrorResponse(400, <<"Input cannot be empty">>, "invalid_request_error")]
    /\ request_duration' = request_duration + DropTimer(timer[r])
    /\ counted' = [counted EXCEPT ![r].samples = @ + DropTimer(timer[r])]
    /\ timer' = [timer EXCEPT ![r] = "observed"]
    /\ pc' = [pc EXCEPT ![r] = "done"]
    /\ UNCHANGED <<main_pc, model_name, embedder, engine_busy, requests_total,
                   errors_total, tokens_processed, req, texts, token_count,
                   embed_result, embed_calls>>
    /\ get_resp' = NoResponse

\* a mutation of CountTokens: the count is kept for the response but never
\* added to the counter
CountTokensLocal(r) ==
    /\ pc[r] = "count"
    /\ token_count' = [token_count EXCEPT ![r] = TokenCount(texts[r])]
    /\ pc' = [pc EXCEPT ![r] = "lock"]
    /\ UNCHANGED <<main_pc, model_name, embedder, engine_busy, metricVars, req, timer,
                   texts, embed_result, embed_calls, resp, counted>>
    /\ get_resp' = NoResponse

\* let token_count = ..; tokens_processed.inc_by(token_count as f64);
CountTokens(r) ==
    /\ pc[r] = "count"
    /\ token_count' = [token_count EXCEPT ![r] = TokenCount(texts[r])]
    /\ tokens_processed' = tokens_processed + TokenCount(texts[r])
    /\ counted' = [counted EXCEPT ![r].tokens = @ + TokenCount(texts[r])]
    /\ pc' = [pc EXCEPT ![r] = "lock"]
    /\ UNCHANGED <<main_pc, model_name, embedder, engine_busy, requests_total,
                   errors_total, request_duration, req, timer, texts, embed_result,
                   embed_calls, resp>>
    /\ get_resp' = NoResponse

\* let mut embedder = state.embedder.lock().unwrap();
Lock(r) ==
    /\ pc[r] = "lock"
    /\ CanLock(embedder)
    /\ embedder' = r
    /\ pc' = [pc EXCEPT ![r] = "locked"]
    /\ UNCHANGED <<main_pc, model_name, engine_busy, metricVars, req, timer, texts,
                   token_count, embed_result, embed_calls, resp, counted>>
    /\ get_resp' = NoResponse

\* embedder.embed(text_refs, None): the engine call begins
EmbedCall(r) ==
    /\ pc[r] = "locked"
    /\ engine_busy' = engine_busy + 1
    /\ embed_calls' = [embed_calls EXCEPT ![r] = @ + 1]
    /\ pc' = [pc EXCEPT ![r] = "embed"]
    /\ UNCHANGED <<main_pc, model_name, embedder, metricVars, req, timer, texts,
                   token_count, embed_result, resp, counted>>
    /\ get_resp' = NoResponse

\* Ok(emb) => emb, and the guard goes out of scope at the end of the block
EmbedOk(r) ==
    /\ pc[r] = "embed"
    /\ engine_busy' = engine_busy - 1
    /\ embed_result' = [embed_result EXCEPT ![r] =
           [ok |-> TRUE, emb |-> EngineEmbed(texts[r]), err |-> ""]]
    /\ embedder' = DropGuard(embedder, r)
    /\ pc' = [pc EXCEPT ![r] = "build"]
    /\ UNCHANGED <<main_pc, model_name, metricVars, req, timer, texts, token_count,
                   embed_calls, resp, counted>>
    /\ get_resp' = NoResponse

\* a mutation of EmbedErr: a failed engine call is tried again
EmbedErrRetry(r, e) ==
    /\ pc[r] = "embed"
    /\ engine_busy' = engine_busy - 1
    /\ embed_result' = [embed_result EXCEPT ![r] = [ok |-> FALSE, emb |-> <<>>, err |-> e]]
    /\ pc' = [pc EXCEPT ![r] = "locked"]
    /\ UNCHANGED <<main_pc, model_name, embedder, metricVars, req, timer, texts,
                   token_count, embed_calls, resp, counted>>
    /\ get_resp' = NoResponse

\* Err(e) => ..: the engine call returned a failure; the guard is still held
EmbedErr(r, e) ==
    /\ pc[r] = "embed"
    /\ engine_busy' = engine_busy - 1
    /\ embed_result' = [embed_result EXCEPT ![r] = [ok |-> FALSE, emb |-> <<>>, err |-> e]]
    /\ pc' = [pc EXCEPT ![r] = "err"]
    /\ UNCHANGED <<main_pc, model_name, embedder, metricVars, req, timer, texts,
                   token_count, embed_calls, resp, counted>>
    /\ get_resp' = NoResponse

\* error!(..); errors_total.inc();   (inside the Err arm, the guard held)
HandleErr(r) ==
    /\ pc[r] = "err"
    /\ errors_total' = errors_total + 1
    /\ counted' = [counted EXCEPT ![r].errors = @ + 1]
    /\ pc' = [pc EXCEPT ![r] = "err_counted"]
    /\ UNCHANGED <<main_pc, model_name, embedder, engine_busy, requests_total,
                   tokens_processed, request_duration, req, timer, texts, token_count,
                   embed_result, embed_calls, resp>>
    /\ get_resp' = NoResponse

\* return Err(..) out of the block: locals are dropped in reverse order of
\* declaration, the guard `embedder` first
ReleaseOnErr(r) ==
    /\ pc[r] = "err_counted"
    /\ embedder' = DropGuard(embedder, r)
    /\ pc' = [pc EXCEPT ![r] = "err_unlocked"]
    /\ UNCHANGED <<main_pc, model_name, engine_busy, metricVars, req, timer, texts,
                   token_count, embed_result, embed_calls, resp, counted>>
    /\ get_resp' = NoResponse

\* .. then `timer`, which records its sample, and the 500 built at lines
\* 248-256 goes out
ReturnErr(r) ==
    /\ pc[r] = "err_unlocked"
    /\ resp' = [resp EXCEPT ![r] =
           ErrorResponse(500, FormatEngineError(embed_result[r].err), "internal_error")]
    /\ request_duration' = request_duration + DropTimer(timer[r])
    /\ counted' = [counted EXCEPT ![r].samples = @ + DropTimer(timer[r])]
    /\ timer' = [timer EXCEPT ![r] = "observed"]
    /\ pc' = [pc EXCEPT ![r] = "done"]
    /\ UNCHANGED <<main_pc, model_name, embedder, engine_busy, requests_total,
                   errors_total, tokens_processed, req, texts, token_count,
                   embed_result, embed_calls>>
    /\ get_resp' = NoResponse

\* build data and response; timer.observe_duration(); Ok(Json(response))
Build(r) ==
    /\ pc[r] = "build"
    /\ resp' = [resp EXCEPT ![r] =
           EmbeddingResponse(embed_result[r].emb, model_name, token_count[r])]
    /\ request_duration' = request_duration + ObserveDuration(timer[r])
    /\ counted' = [counted EXCEPT ![r].samples = @ + ObserveDuration(timer[r])]
    /\ timer' = [timer EXCEPT ![r] = "observed"]
    /\ pc' = [pc EXCEPT ![r] = "done"]
    /\ UNCHANGED <<main_pc, model_name, embedder, engine_busy, requests_total,
                   errors_total, tokens_processed, req, texts, token_count,
                   embed_result, embed_calls>>
    /\ get_resp' = NoResponse

(***************************************************************************)
(* health_check, list_models, metrics_handler                              *)
(***************************************************************************)
\* a mutation of health_check: the probe waits for the engine's mutex
health_check_probing ==
    /\ Serving
    /\ embedder = 0
    /\ get_resp' = Response(200, "health", <<>>, model_name, 0, <<"healthy">>, "", <<>>)
    /\ UNCHANGED <<main_pc, model_name, embedder, engine_busy, metricVars, reqVars>>

\* Json(HealthResponse { status: "healthy", model })
health_check ==
    /\ Serving
    /\ get_resp' = Response(200, "health", <<>>, model_name, 0, <<"healthy">>, "", <<>>)
    /\ UNCHANGED <<main_pc, model_name, embedder, engine_busy, metricVars, reqVars>>

\* Json(ModelsResponse { models: vec![model_name] })
list_models ==
    /\ Serving
    /\ get_resp' = Response(200, "models", <<model_name>>, "", 0, <<>>, "", <<>>)
    /\ UNCHANGED <<main_pc, model_name, embedder, engine_busy, metricVars, reqVars>>

\* a mutation of MetricsText: two instruments' values change places
MetricsTextSwapped ==
    << <<"semembed_requests_total", errors_total>>,
       <<"semembed_request_duration_seconds_count", request_duration>>,
       <<"semembed_tokens_processed_total", tokens_processed>>,
       <<"semembed_errors_total", requests_total>> >>

\* registry.gather() and the text encoding of the four instruments
MetricsText ==
    << <<"semembed_requests_total", requests_total>>,
       <<"semembed_request_duration_seconds_count", request_duration>>,
       <<"semembed_tokens_processed_total", tokens_processed>>,
       <<"semembed_errors_total", errors_total>> >>

\* encoder.encode(..) and String::from_utf8(..): on a fault, a 500 with a
\* plain string; otherwise the exposition text
metrics_handler(fault) ==
    /\ Serving
    /\ get_resp' =
          IF fault = "encode" THEN TextResponse(500, <<"Failed to encode metrics">>)
          ELSE IF fault = "utf8" THEN TextResponse(500, <<"Failed to convert metrics">>)
          ELSE Response(200, "text", <<>>, "", 0, <<>>, "", MetricsText)
    /\ UNCHANGED <<main_pc, model_name, embedder, engine_busy, metricVars, reqVars>>

MetricsFaults == {"none", "encode", "utf8"}

(***************************************************************************)
(* Specifications                                                          *)
(***************************************************************************)
Handler(r) ==
    \/ Enter(r)
    \/ Validate(r)
    \/ ReturnEmpty(r)
    \/ CountTokens(r)
    \/ Lock(r)
    \/ EmbedCall(r)
    \/ EmbedOk(r)
    \/ \E e \in EngineErrors : EmbedErr(r, e)
    \/ HandleErr(r)
    \/ ReleaseOnErr(r)
    \/ ReturnErr(r)
    \/ Build(r)

Next ==
    \/ \E ok \in BOOLEAN : LoadModel(ok)
    \/ \E ok \in BOOLEAN : BindListener(ok)
    \/ \E r \in Reqs : pc[r] = "idle" /\ \E raw \in Bodies : Receive(r, raw)
    \/ \E r \in Reqs : Handler(r)
    \/ health_check
    \/ list_models
    \/ \E f \in MetricsFaults : metrics_handler(f)

Spec == Init /\ [][Next]_vars

\* one request at a time, over every body up to the bounds
NextOne ==
    \/ \E ok \in BOOLEAN : LoadModel(ok)
    \/ \E ok \in BOOLEAN : BindListener(ok)
    \/ pc[1] = "idle" /\ Serving /\ \E raw \in RichBodies : Receive(1, raw)
    \/ Handler(1)

SpecOne == Init /\ [][NextOne]_vars

\* the embeddings endpoint alone, each handler task scheduled fairly: a task
\* that can run does run, and a task waiting in Mutex::lock gets the mutex
\* once it stays free
NextPost ==
    \/ \E ok \in BOOLEAN : LoadModel(ok)
    \/ \E ok \in BOOLEAN : BindListener(ok)
    \/ \E r \in Reqs : pc[r] = "idle" /\ \E raw \in PathBodies : Receive(r, raw)
    \/ \E r \in Reqs : Handler(r)

FairSpec == Init /\ [][NextPost]_vars /\ \A r \in Reqs : WF_vars(Handler(r))

(***************************************************************************)
(* Properties                                                              *)
(***************************************************************************)
\* the normalized input of a request, read off the decoded body
InputTexts(r) == IF req[r].kind = "Single" THEN <<req[r].single>> ELSE req[r].batch

IsEmptyBatch(r) == req[r].kind = "Batch" /\ req[r].batch = <<>>

RECURSIVE SumOver(_, _)
SumOver(f, S) ==
    IF S = {} THEN 0
    ELSE LET x == CHOOSE y \in S : TRUE IN f[x] + SumOver(f, S \ {x})

\* the per-request tallies add up to the instruments
TalliesAgree ==
    /\ requests_total = SumOver([r \in Reqs |-> counted[r].requests], Reqs)
    /\ errors_total = SumOver([r \in Reqs |-> counted[r].errors], Reqs)
    /\ tokens_processed = SumOver([r \in Reqs |-> counted[r].tokens], Reqs)
    /\ request_duration = SumOver([r \in Reqs |-> counted[r].samples], Reqs)

\* C1: at most one engine embed call is in flight at any time: two requests
\* are never both inside embedder.embed, so a call that started first has
\* returned before the next one begins.
C1_OneEngineCallInFlight ==
    /\ engine_busy <= 1
    /\ \A a, b \in Reqs : (pc[a] = "embed" /\ pc[b] = "embed") => a = b
    /\ \A a \in Reqs : pc[a] = "embed" => embedder = a

\* one request is inside the engine while another waits at the gate
C1_Witness == \E a, b \in Reqs : a # b /\ pc[a] = "embed" /\ pc[b] = "lock"

\* C2: a successful response to a non-empty batch of n texts has n data
\* elements, data[i].index = i, and data[i].embedding is the vector the
\* engine produced for input[i].
C2_OrderPreserved ==
    \A r \in Reqs :
        (pc[r] = "done" /\ resp[r].status = 200) =>
            LET n == Len(InputTexts(r)) IN
            /\ n > 0
            /\ Len(resp[r].data) = n
            /\ \A i \in 1..n :
                /\ resp[r].data[i].index = i - 1
                /\ resp[r].data[i].embedding = embed_result[r].emb[i]
                /\ resp[r].data[i].embedding = EngineVector(InputTexts(r)[i])

\* a successful batch of two different texts
C2_Witness ==
    \E r \in Reqs :
        /\ pc[r] = "done" /\ resp[r].status = 200
        /\ Len(resp[r].data) = 2
        /\ resp[r].data[1].embedding # resp[r].data[2].embedding

\* C3: a request whose input is the empty list is answered 400 with type
\* invalid_request_error; it adds exactly 1 to the error counter and exactly
\* 1 to the request counter, the latter before validation fails.
C3_EmptyBatchRejected ==
    /\ TalliesAgree
    /\ \A r \in Reqs :
        /\ (IsEmptyBatch(r) /\ pc[r] = "validate") =>
               (counted[r].requests = 1 /\ counted[r].errors = 0)
        /\ (IsEmptyBatch(r) /\ pc[r] \notin {"idle", "enter", "validate"}) =>
               /\ pc[r] \in {"empty", "done"}
               /\ counted[r].errors = 1
               /\ counted[r].requests = 1
               /\ pc[r] = "empty" => resp[r] = NoResponse
               /\ pc[r] = "done" =>
                      /\ resp[r].status = 400
                      /\ resp[r].content = "error_json"
                      /\ resp[r].error_type = "invalid_request_error"

\* an empty batch was rejected while another request was being served
C3_Witness ==
    \E r, q \in Reqs :
        /\ IsEmptyBatch(r) /\ pc[r] = "done" /\ resp[r].status = 400
        /\ q # r /\ pc[q] \notin {"idle", "rejected"}

IsFailure(rsp) == rsp.status >= 400

Quiescent == \A r \in Reqs : pc[r] \in {"idle", "done", "rejected"}

\* C4: every failure response (malformed body or unknown enum value, empty
\* batch, engine failure, metrics-export fault) comes with an increment of
\* errors_total: the counter is at least the number of failure responses.
C4_EveryFailureCounted ==
    errors_total >= Cardinality({r \in Reqs : IsFailure(resp[r])})
                    + (IF IsFailure(get_resp) THEN 1 ELSE 0)

\* C5: once all POST /v1/embeddings calls have completed, requests_total is
\* the number of calls, successful or failed.
C5_EveryCallCounted ==
    Quiescent => requests_total = Cardinality({r \in Reqs : pc[r] \in {"done", "rejected"}})

\* C6: the gate is released on every exit path of the engine call: a request
\* holds the mutex only from its lock to the end of its engine call's
\* handling, never once it has moved on or responded, so the gate is free
\* whenever no request is there.
C6_GateReleased ==
    /\ embedder \in 0..NumReq
    /\ \A r \in Reqs : embedder = r => pc[r] \in {"locked", "embed", "err", "err_counted"}
    /\ \A r \in Reqs : pc[r] \in {"locked", "embed", "err", "err_counted"} => embedder = r

\* a request holds the gate after another request's engine call failed
C6_Witness ==
    \E a, b \in Reqs :
        /\ a # b /\ pc[a] = "done" /\ resp[a].status = 500
        /\ embedder = b /\ pc[b] = "embed"

\* C7: every failure response of any endpoint is 400 or 500 and carries the
\* JSON error document {error: {message, type}} with type
\* invalid_request_error or internal_error.
C7_FailuresAreStructured ==
    \A rsp \in {resp[r] : r \in Reqs} \cup {get_resp} :
        IsFailure(rsp) =>
            /\ rsp.status \in {400, 500}
            /\ rsp.content = "error_json"
            /\ rsp.error_type \in {"invalid_request_error", "internal_error"}
            /\ rsp.message # <<>>

\* the characters of Unicode's White_Space property: tab, line feed, vertical
\* tab, form feed, carriage return, space, next line, no-break space, ogham
\* space mark, en quad .. hair space, line and paragraph separator, narrow
\* no-break space, medium mathematical space, ideographic space
UnicodeWhiteSpace ==
    {9, 10, 11, 12, 13, 32, 133, 160, 5760, 8192, 8193, 8194, 8195, 8196, 8197,
     8198, 8199, 8200, 8201, 8202, 8232, 8233, 8239, 8287, 12288}

\* the number of whitespace-delimited tokens of a text: the positions where
\* a run of non-whitespace characters begins
WhitespaceTokens(t) ==
    Cardinality({i \in 1..Len(t) :
        /\ t[i] \notin UnicodeWhiteSpace
        /\ (i = 1 \/ t[i - 1] \in UnicodeWhiteSpace)})

\* C8: in every successful response prompt_tokens = total_tokens = the sum
\* over the normalized input of each text's whitespace-delimited tokens.
C8_UsageIsWhitespaceCount ==
    \A r \in Reqs :
        (pc[r] = "done" /\ resp[r].status = 200) =>
            LET in == InputTexts(r) IN
            /\ resp[r].prompt_tokens = SumOver([i \in 1..Len(in) |-> WhitespaceTokens(in[i])],
                                               1..Len(in))
            /\ resp[r].total_tokens = resp[r].prompt_tokens

\* ["hello world", "foo"] was answered with 3 tokens
C8_Witness ==
    \E r \in Reqs :
        /\ pc[r] = "done" /\ resp[r].status = 200
        /\ req[r].batch = <<HelloWorld, Foo>>
        /\ resp[r].prompt_tokens = 3

\* request a carries the single string that is request b's one-element batch
SameText(a, b) ==
    /\ req[a].kind = "Single"
    /\ req[b].kind = "Batch"
    /\ req[b].batch = <<req[a].single>>

\* C9: a single-string input is a one-element batch: requests with input s
\* and input [s] pass the same texts to the engine and, with the same engine
\* outcome, get the same response (data, usage) and add the same amounts to
\* the counters.
C9_SingleIsBatchOfOne ==
    \A a, b \in Reqs :
        SameText(a, b) =>
            /\ (embed_calls[a] = 1 /\ embed_calls[b] = 1) => texts[a] = texts[b]
            /\ (pc[a] = "done" /\ pc[b] = "done" /\ embed_result[a].ok = embed_result[b].ok) =>
                   /\ resp[a] = resp[b]
                   /\ counted[a] = counted[b]

\* both forms of the same text were answered successfully
C9_Witness ==
    \E a, b \in Reqs :
        /\ SameText(a, b)
        /\ pc[a] = "done" /\ resp[a].status = 200
        /\ pc[b] = "done" /\ resp[b].status = 200

\* C10: every request that enters the handler adds exactly one sample to the
\* duration histogram, on success, on empty-input rejection and on engine
\* failure; once all requests have completed the sample count equals
\* requests_total.
C10_TimerObservedOnEveryExit ==
    /\ TalliesAgree
    /\ \A r \in Reqs :
        /\ counted[r].samples = (IF pc[r] = "done" THEN 1 ELSE 0)
        /\ pc[r] = "done" => counted[r].requests = 1
    /\ Quiescent => request_duration = requests_total

\* all requests completed, one rejected as empty and one failed in the engine
C10_Witness ==
    /\ Quiescent
    /\ \E a, b \in Reqs :
        /\ pc[a] = "done" /\ resp[a].status = 400
        /\ pc[b] = "done" /\ resp[b].status = 500
    /\ request_duration = requests_total

\* the engine call of request r returned a failure
EngineFailed(r) == embed_calls[r] = 1 /\ embed_result[r].err \in EngineErrors

\* C11: when the engine reports a failure, the request is answered 500 with
\* type internal_error and the engine's message, adds exactly 1 to the error
\* counter, and stops: it produces no embedding response.
C11_EngineFailureIs500 ==
    \A r \in Reqs :
        EngineFailed(r) =>
            /\ pc[r] \in {"err", "err_counted", "err_unlocked", "done"}
            /\ pc[r] = "err" => (resp[r] = NoResponse /\ counted[r].errors = 0)
            /\ pc[r] \in {"err_counted", "err_unlocked"} =>
                   (resp[r] = NoResponse /\ counted[r].errors = 1)
            /\ pc[r] = "done" =>
                   /\ resp[r].status = 500
                   /\ resp[r].content = "error_json"
                   /\ resp[r].error_type = "internal_error"
                   /\ Len(resp[r].message) = 2
                   /\ resp[r].message[2] = embed_result[r].err
                   /\ resp[r].data = <<>>
                   /\ counted[r].errors = 1
                   /\ embed_calls[r] = 1

\* a request whose engine call failed has been answered
C11_Witness ==
    \E r \in Reqs : EngineFailed(r) /\ pc[r] = "done" /\ errors_total >= 1

NothingServed ==
    /\ \A r \in Reqs : pc[r] = "idle" /\ resp[r] = NoResponse
    /\ get_resp = NoResponse
    /\ requests_total = 0 /\ errors_total = 0

\* C12: the service passes from Initializing to Serving once, only after the
\* engine load succeeded; nothing is served before Serving; a failed load or
\* bind ends the process for good: no Serving, no retry.
C12_Lifecycle ==
    [][ /\ main_pc' # main_pc =>
               <<main_pc, main_pc'>> \in { <<"load", "bind">>, <<"load", "exited">>,
                                           <<"bind", "serving">>, <<"bind", "exited">> }
        /\ main_pc' # "serving" => NothingServed'
      ]_vars

\* the service is serving and has answered a request
C12_Witness == main_pc = "serving" /\ \E r \in Reqs : pc[r] = "done"

\* C13: once Serving, GET /health can always be answered, whatever the
\* embeddings requests are doing, and its answer is 200 "healthy" with the
\* configured model name.
C13_HealthAlwaysHealthy ==
    /\ main_pc = "serving" => ENABLED health_check
    /\ get_resp.content = "health" =>
           /\ get_resp.status = 200
           /\ get_resp.message = <<"healthy">>
           /\ get_resp.model = model_name
           /\ model_name \in ModelNames

\* health was answered with a failed request behind and the gate held
C13_Witness ==
    /\ get_resp.content = "health"
    /\ \E a, b \in Reqs : resp[a].status = 500 /\ embedder = b /\ pc[b] = "embed"

\* the exposition document of the instruments' current values
CurrentMetrics ==
    << <<"semembed_requests_total", requests_total>>,
       <<"semembed_request_duration_seconds_count", request_duration>>,
       <<"semembed_tokens_processed_total", tokens_processed>>,
       <<"semembed_errors_total", errors_total>> >>

\* C14: the counters never decrease and are never reset; the GET endpoints
\* are pure reads, leaving counters, histogram, model name, engine and gate
\* unchanged; a successful metrics export is the document of the current
\* values, so two exports with no embeddings step between them are the same.
C14_MonotonicAndPureReads ==
    [][ /\ requests_total' >= requests_total
        /\ errors_total' >= errors_total
        /\ tokens_processed' >= tokens_processed
        /\ request_duration' >= request_duration
        /\ model_name' = model_name
        /\ get_resp' # NoResponse =>
               /\ UNCHANGED <<main_pc, embedder, engine_busy, metricVars, reqVars>>
               /\ (get_resp'.status = 200 /\ get_resp'.content = "text") =>
                      (get_resp'.metrics = CurrentMetrics /\ CurrentMetrics' = CurrentMetrics)
      ]_vars

\* a metrics export after requests were counted
C14_Witness ==
    /\ get_resp.status = 200 /\ get_resp.content = "text"
    /\ get_resp.metrics = CurrentMetrics
    /\ requests_total >= 2 /\ errors_total >= 1 /\ tokens_processed >= 2

\* C15: a request holds the gate only between the start and the return of
\* its engine call, never while it validates, counts, updates counters or
\* assembles a response.
C15_LockOnlyAroundEngineCall ==
    \A r \in Reqs : embedder = r => pc[r] \in {"locked", "embed"}

\* C16: every request invokes the engine at most once: exactly once when its
\* normalized input is non-empty (no retry after a failure), and never when
\* it is rejected as empty, in which case it never holds the gate either.
C16_EngineCalledAtMostOnce ==
    \A r \in Reqs :
        /\ embed_calls[r] <= 1
        /\ (pc[r] = "done" /\ ~IsEmptyBatch(r)) => embed_calls[r] = 1
        /\ pc[r] \in {"err", "err_counted", "err_unlocked", "build"} => embed_calls[r] = 1
        /\ IsEmptyBatch(r) => (embed_calls[r] = 0 /\ embedder # r
                               /\ pc[r] \in {"enter", "validate", "empty", "done"})
        /\ pc[r] = "rejected" => (embed_calls[r] = 0 /\ embedder # r)

\* one request failed in the engine after one call, another was rejected as
\* empty without any
C16_Witness ==
    \E a, b \in Reqs :
        /\ pc[a] = "done" /\ resp[a].status = 500 /\ embed_calls[a] = 1
        /\ pc[b] = "done" /\ IsEmptyBatch(b) /\ embed_calls[b] = 0

\* C17: a decoded request is rejected as InvalidRequest exactly when its
\* normalized input has no elements: a non-empty batch goes to the engine
\* even if its elements are empty strings (0 tokens each), and a single
\* string, even the empty one, is never rejected as empty.
C17_RejectedIffNoElements ==
    \A r \in Reqs :
        pc[r] \notin {"idle", "enter", "validate", "rejected"} =>
            /\ pc[r] = "empty" <=> (IsEmptyBatch(r) /\ pc[r] # "done")
            /\ (pc[r] = "done" /\ resp[r].status = 400) <=> (IsEmptyBatch(r) /\ pc[r] # "empty")
            /\ req[r].kind = "Single" => Len(texts[r]) = 1
            /\ (pc[r] = "done" /\ ~IsEmptyBatch(r)) =>
                   (embed_calls[r] = 1 /\ texts[r] = InputTexts(r))
            /\ (pc[r] = "done" /\ resp[r].status = 200
                  /\ \A i \in 1..Len(texts[r]) : texts[r][i] = <<>>) =>
                   resp[r].prompt_tokens = 0

\* a batch of two empty strings was embedded
C17_Witness ==
    \E r \in Reqs :
        /\ pc[r] = "done" /\ resp[r].status = 200
        /\ req[r].batch = << <<>>, <<>> >>
        /\ Len(resp[r].data) = 2

\* C18: errors_total never exceeds requests_total, and a request adds to
\* errors_total at most once: never on success, and never on both the
\* empty-input and the engine-failure path.
C18_ErrorsAtMostRequests ==
    /\ TalliesAgree
    /\ errors_total <= requests_total
    /\ \A r \in Reqs :
        /\ counted[r].errors <= 1
        /\ counted[r].errors <= counted[r].requests
        /\ resp[r].status = 200 => counted[r].errors = 0
        /\ (IsEmptyBatch(r) /\ counted[r].errors = 1) => embed_calls[r] = 0

\* every request so far failed, on the two different paths
C18_Witness ==
    /\ errors_total = requests_total
    /\ \E a, b \in Reqs : IsEmptyBatch(a) /\ counted[a].errors = 1 /\ EngineFailed(b)
                          /\ counted[b].errors = 1

\* the whitespace token count of a request's normalized input
ExpectedTokens(r) ==
    LET in == InputTexts(r) IN
    SumOver([i \in 1..Len(in) |-> WhitespaceTokens(in[i])], 1..Len(in))

\* C19: the token counter advances by the request's whitespace token count
\* for every request that passes validation, before the engine is invoked and
\* so also when the engine call fails; a request rejected as empty adds
\* nothing. Once all requests are done, tokens_processed is the sum over the
\* validated requests.
C19_TokensCountedBeforeEngine ==
    /\ TalliesAgree
    /\ \A r \in Reqs :
        /\ pc[r] \in {"lock", "locked", "embed", "err", "err_counted", "err_unlocked",
                    "build"} =>
               counted[r].tokens = ExpectedTokens(r)
        /\ (pc[r] = "done" /\ ~IsEmptyBatch(r)) => counted[r].tokens = ExpectedTokens(r)
        /\ (pc[r] \in {"idle", "enter", "validate", "count", "rejected"} \/ IsEmptyBatch(r)) =>
               counted[r].tokens = 0
    /\ Quiescent =>
           tokens_processed =
               SumOver([r \in Reqs |-> IF pc[r] = "done" /\ ~IsEmptyBatch(r)
                                       THEN ExpectedTokens(r) ELSE 0], Reqs)

\* a request whose engine call failed had its tokens counted
C19_Witness ==
    \E r \in Reqs :
        /\ pc[r] = "done" /\ resp[r].status = 500
        /\ counted[r].tokens >= 2
        /\ tokens_processed >= counted[r].tokens

\* C20: under fair scheduling every request that arrived is eventually
\* answered, and a handler task that has not finished can always take its
\* next step except when it waits for the gate, where it can as soon as the
\* gate is free.
C20_EveryRequestAnswered ==
    /\ [](\A r \in Reqs :
            /\ pc[r] \in {"enter", "validate", "empty", "count", "locked", "embed", "err",
                        "err_counted", "err_unlocked", "build"}
                   => ENABLED Handler(r)
            /\ (pc[r] = "lock" /\ embedder = 0) => ENABLED Handler(r))
    /\ \A r \in Reqs : (pc[r] # "idle") ~> (pc[r] \in {"done", "rejected"})

\* a later arrival went through the gate while an earlier one still waits
C20_Witness ==
    \E a, b \in Reqs :
        /\ a < b
        /\ pc[a] = "lock"
        /\ pc[b] = "done" /\ embed_calls[b] = 1

====
